---- MODULE Spec2Model ----
(***************************************************************************)
(* Orchestration layer of go-web-crawler: the REST API (api/main.py), the  *)
(* stdio tool server (mcp-server/server.py) and the HTTP-relay tool server *)
(* (mcp-server/server_http.py).  A call is one request handled by one of   *)
(* the three adapters; the crawler executable, the file system and the     *)
(* upstream HTTP endpoint of the relay are the environment.                *)
(***************************************************************************)
EXTENDS Integers, Sequences, FiniteSets, TLC

\* Bounds of the model.
NumCalls == 2
NumPaths == 2

Calls == 1..NumCalls
Paths == 1..NumPaths
\* output_file before tempfile has bound it / after run_crawler has returned.
NoPath == 0
\* No handler owns the API server's event loop.
NoCall == 0

Adapters == {"api", "stdio", "relay"}
Endpoints == {"crawl", "scrape", "links"}
Terminal == {"Succeeded", "Failed", "TimedOut"}

VARIABLES
    status,     \* call -> Idle, Queued, Rejected, Pending, Running or a terminal state
    adapter,    \* call -> the adapter that received it
    endpoint,   \* call -> the operation asked for
    path,       \* call -> output_file of its run_crawler (NoPath outside it)
    proc,       \* call -> the OS process it spawned
    response,   \* call -> what the adapter answered
    fs,         \* path -> the file of that name in the temporary directory
    loopOwner,  \* the call whose handler occupies the API server's event loop
    request,    \* call -> the request body or the tool arguments it came with
    tokens,     \* call -> the crawler_args its handler compiled
    budget,     \* call -> the timeout its handler handed on
    effects     \* call -> how many files it created, processes it launched
                \*         and HTTP POSTs it issued so far

vars ==
    <<status, adapter, endpoint, path, proc, response, fs, loopOwner,
      request, tokens, budget, effects>>

----------------------------------------------------------------------------
(* JSON texts and values.  A text is what a file holds; json.load turns it *)
(* into a value or fails.                                                  *)

\* A page record as the executable writes it: req says whether the fields
\* PageData requires (url, title, description, crawled_at, depth) are there.
\* haslinks and hascontent say whether it has a "links" and a "content"
\* key, nulls which of its keys hold null, extra whether it has a key that
\* PageData does not declare.
Page(req, haslinks, links, hascontent, extra) ==
    [req |-> req, haslinks |-> haslinks, links |-> links,
     hascontent |-> hascontent, extra |-> extra, nulls |-> {}]
GoodPage == Page(TRUE, FALSE, <<>>, FALSE, FALSE)
BadItem == Page(FALSE, FALSE, <<>>, FALSE, FALSE)
\* Pages with every field of PageData, and a page with a further key.
FullPage == Page(TRUE, TRUE, <<"https://example.com/a">>, TRUE, FALSE)
OtherFullPage == Page(TRUE, TRUE, <<>>, TRUE, FALSE)
ExtraPage == Page(TRUE, TRUE, <<>>, TRUE, TRUE)
\* A page whose "links" key holds null.
NullLinksPage == [Page(TRUE, TRUE, <<>>, TRUE, FALSE) EXCEPT !.nulls = {"links"}]

JNull == [t |-> "null", n |-> 0, items |-> <<>>]
JObject(n) == [t |-> "object", n |-> n, items |-> <<>>]
JArray(items) == [t |-> "array", n |-> Len(items), items |-> items]

NotJsonText(s) == [json |-> FALSE, raw |-> s, value |-> JNull]
JsonText(v) == [json |-> TRUE, raw |-> "", value |-> v]

\* The file tempfile creates: empty.
EmptyText == NotJsonText("")

\* What the executable may leave in its output file.
Contents ==
    { EmptyText, NotJsonText("<html>"),
      JsonText(JNull), JsonText(JObject(0)), JsonText(JObject(1)),
      JsonText(JArray(<<>>)), JsonText(JArray(<<GoodPage>>)),
      JsonText(JArray(<<BadItem>>)) }

\* The diagnostic texts the executable may write to stderr.
Diagnostics == {"", "connection refused"}

\* How the executable may end: exit status, diagnostic text, output file.
Outcome(rc, d, t) == [rc |-> rc, stderr |-> d, text |-> t]
\* stderr is read only after a non-zero exit and the file only after a zero
\* exit, so a zero exit varies the file and a non-zero exit the diagnostic
\* text (over an empty file and over a file holding a page).
AllOutcomes ==
    {Outcome(0, "", t) : t \in Contents}
    \cup {Outcome(1, d, t) : d \in Diagnostics,
                             t \in {EmptyText, JsonText(JArray(<<GoodPage>>))}}

\* One outcome of each class: a page, an unparsable file, a failure.
SomeOutcomes ==
    { Outcome(0, "", JsonText(JArray(<<GoodPage>>))),
      Outcome(0, "", NotJsonText("<html>")),
      Outcome(1, "connection refused", EmptyText) }

\* Call 1 asks for any operation and meets every outcome, a failure to
\* launch the executable and a failure to read the file included; the calls
\* running beside it are crawl calls that meet one outcome of each class.
\* This keeps the state space of several concurrent calls small.
Detailed(c) == c = 1
EndpointsOf(c) == IF Detailed(c) THEN Endpoints ELSE {"crawl"}
Outcomes(c) == IF Detailed(c) THEN AllOutcomes ELSE SomeOutcomes
IoErrors(c) == IF Detailed(c) THEN BOOLEAN ELSE {FALSE}
LaunchOks(c) == IF Detailed(c) THEN BOOLEAN ELSE {TRUE}

\* bool(v), len(v) and v[0] of Python on a parsed JSON value.
Truthy(v) == v.n > 0
\* Mutant: a length is taken of non-empty values only.
HasLenNonEmpty(v) == v.t \in {"array", "object"} /\ v.n > 0
HasLen(v) == v.t \in {"array", "object"}
IsList(v) == v.t = "array"

\* PageData(**item) validates.
ValidPage(item) == item.req

\* List[PageData] validates.
ValidPages(v) == IsList(v) /\ \A i \in 1..Len(v.items) : ValidPage(v.items[i])

\* A record as the response model PageData serialises it: the declared
\* fields only, an optional field that was absent as null.
PageDataOut(item) ==
    [item EXCEPT !.haslinks = TRUE, !.hascontent = TRUE, !.extra = FALSE,
                 !.nulls = @ \cup (IF item.haslinks THEN {} ELSE {"links"})
                             \cup (IF item.hascontent THEN {} ELSE {"content"})]

\* pages: List[PageData] of CrawlResponse, serialised.
PagesOut(v) == [v EXCEPT !.items = [i \in 1..Len(v.items) |-> PageDataOut(v.items[i])]]

----------------------------------------------------------------------------
(* Exceptions and results of a Python call.                                *)

HTTPException(code, detail) ==
    [type |-> "HTTPException", status_code |-> code, detail |-> detail]
Exception(type, msg) == [type |-> type, status_code |-> 0, detail |-> msg]
NoException == Exception("", <<>>)

\* str(e)
Str(e) ==
    IF e.type = "HTTPException"
    THEN <<ToString(e.status_code), ": ">> \o e.detail
    ELSE e.detail

Raise(e) == [raised |-> TRUE, exc |-> e, data |-> JNull]
Return(v) == [raised |-> FALSE, exc |-> NoException, data |-> v]

\* with open(output_file) as f: json.load(f)
JsonLoad(file, ioerr) ==
    IF ioerr THEN Raise(Exception("OSError", <<"cannot open output file">>))
    ELSE IF ~file.json THEN Raise(Exception("JSONDecodeError", <<"Expecting value">>))
    ELSE Return(file.value)

----------------------------------------------------------------------------
(* Requests: the body of a POST to the API, the arguments of a tool call.  *)

\* The keys of a crawl request.
Keys ==
    {"url", "extract_links", "depth", "max_pages", "workers", "stay_domain",
     "filter", "seed_only", "news", "delay", "timeout", "verbose"}
NumericKeys == {"depth", "max_pages", "workers", "delay", "timeout"}

\* Field(default, ge=, le=) of CrawlRequest; the same defaults and bounds
\* are those of the relay's parameters and of the stdio inputSchema.  A
\* filter of None is the empty string: both are falsy.
Defaults ==
    [url |-> "", extract_links |-> FALSE, depth |-> 1, max_pages |-> 20,
     workers |-> 2, stay_domain |-> TRUE, filter |-> "", seed_only |-> FALSE,
     news |-> FALSE, delay |-> 1, timeout |-> 10, verbose |-> FALSE]
Ge == [depth |-> 0, max_pages |-> 1, workers |-> 1, delay |-> 0, timeout |-> 5]
Le == [depth |-> 5, max_pages |-> 100, workers |-> 10, delay |-> 10, timeout |-> 60]

\* A request: the keys it carries (given) and their values; the value
\* under a key it does not carry means nothing.
Request(given, values) ==
    [k \in Keys \cup {"given"} |->
        IF k = "given" THEN given ELSE values[k]]
NoRequest == Request({}, Defaults)

\* s.startswith(p), s.find(ch, i) (0: not found) and s.lower().
StartsWith(s, p) == Len(s) >= Len(p) /\ SubSeq(s, 1, Len(p)) = p

RECURSIVE Find(_, _, _)
Find(s, ch, i) ==
    IF i > Len(s) THEN 0
    ELSE IF SubSeq(s, i, i) = ch THEN i
    ELSE Find(s, ch, i + 1)

UpperCase == "ABCDEFGHIJKLMNOPQRSTUVWXYZ"
LowerCase == "abcdefghijklmnopqrstuvwxyz"

\* The characters of a string, as a set.
Chars(s) == {SubSeq(s, i, i) : i \in 1..Len(s)}
Letters == Chars(UpperCase \o LowerCase)
SchemeChars == Letters \cup Chars("0123456789+-.")

\* The lower-case letter of each upper-case letter.
LowerOf ==
    [ch \in Chars(UpperCase) |->
        LET i == Find(UpperCase, ch, 1) IN SubSeq(LowerCase, i, i)]

RECURSIVE Lower(_)
Lower(s) ==
    IF s = "" THEN ""
    ELSE LET ch == SubSeq(s, 1, 1)
         IN  (IF ch \in DOMAIN LowerOf THEN LowerOf[ch] ELSE ch)
             \o Lower(SubSeq(s, 2, Len(s)))

\* urlparse(url): the scheme is what precedes the first ":" when it starts
\* with a letter and holds scheme characters only, lowered; the netloc is
\* what follows "//" up to the next "/", "?" or "#".
HasScheme(url) ==
    LET i == Find(url, ":", 1)
    IN  /\ i > 1
        /\ SubSeq(url, 1, 1) \in Letters
        /\ \A j \in 1..(i - 1) : SubSeq(url, j, j) \in SchemeChars
UrlScheme(url) ==
    IF HasScheme(url) THEN Lower(SubSeq(url, 1, Find(url, ":", 1) - 1)) ELSE ""
AfterScheme(url) ==
    IF HasScheme(url) THEN SubSeq(url, Find(url, ":", 1) + 1, Len(url)) ELSE url
UrlNetloc(url) ==
    LET rest == AfterScheme(url)
        ends == {i \in 3..Len(rest) : SubSeq(rest, i, i) \in {"/", "?", "#"}}
        stop == IF ends = {} THEN Len(rest) + 1
                ELSE CHOOSE i \in ends : \A j \in ends : i <= j
    IN  IF StartsWith(rest, "//") THEN SubSeq(rest, 3, stop - 1) ELSE ""

\* validate_url of both tool servers.
ToolValidateUrl(url) == UrlScheme(url) \in {"http", "https"} /\ UrlNetloc(url) # ""

\* The validator of the url field of the API's request models.
ApiValidateUrl(url) == StartsWith(url, "http://") \/ StartsWith(url, "https://")

\* Ge[k] <= v <= Le[k]
InBounds(k, v) == Ge[k] <= v /\ v <= Le[k]

\* Mutant: the tokens are appended whatever the condition.
FlagAlways(on, toks) == toks
\* The tokens an if statement appends: toks if on, nothing otherwise.
Flag(on, toks) == IF on THEN toks ELSE <<>>

\* execution_timeout = timeout * max_pages + 30; timeout=30 of the
\* single-page operations; httpx.AsyncClient(timeout=300.0).
BudgetSlack == 30
SinglePageTimeout == 30
ClientTimeout == 300

\* request.<k> of a validated request model: the value given, or the
\* default of the field.
ApiField(r, k) == IF k \in r.given THEN r[k] ELSE Defaults[k]

\* CrawlRequest, ScrapeRequest, LinksRequest accept the body: url is
\* required and passes the validator; the numeric fields of a crawl request
\* lie within ge and le.
ApiValid(e, r) ==
    /\ "url" \in r.given /\ ApiValidateUrl(r.url)
    /\ e = "crawl" =>
          \A k \in NumericKeys : k \in r.given => InBounds(k, r[k])

\* crawler_args of crawl_website.
ApiCrawlArgs(r) ==
    <<"-seed", ApiField(r, "url")>>
    \o Flag(ApiField(r, "extract_links"), <<"-extract-links">>)
    \o <<"-depth", ToString(ApiField(r, "depth"))>>
    \o <<"-max", ToString(ApiField(r, "max_pages"))>>
    \o <<"-workers", ToString(ApiField(r, "workers"))>>
    \o Flag(~ApiField(r, "stay_domain"), <<"-stay-domain=false">>)
    \o Flag(ApiField(r, "filter") # "", <<"-filter", ApiField(r, "filter")>>)
    \o Flag(ApiField(r, "seed_only"), <<"-seed-only">>)
    \o Flag(ApiField(r, "news"), <<"-news">>)
    \o <<"-delay", ToString(ApiField(r, "delay"))>>
    \o <<"-timeout", ToString(ApiField(r, "timeout"))>>
    \o Flag(ApiField(r, "verbose"), <<"-verbose">>)

\* Mutant: every endpoint compiles as crawl_website does.
ApiArgsAsCrawl(e, r) == ApiCrawlArgs(r)

\* crawler_args of crawl_website, scrape_page and extract_links.
ApiArgs(e, r) ==
    CASE e = "crawl" -> ApiCrawlArgs(r)
      [] e = "scrape" ->
            <<"-seed", ApiField(r, "url"), "-seed-only">>
            \o Flag(ApiField(r, "extract_links"), <<"-extract-links">>)
      [] OTHER -> <<"-seed", ApiField(r, "url"), "-seed-only", "-extract-links">>

\* The timeout the endpoint hands to run_crawler.
ApiBudget(e, r) ==
    IF e = "crawl"
    THEN ApiField(r, "timeout") * ApiField(r, "max_pages") + BudgetSlack
    ELSE SinglePageTimeout

\* args.get(k, d) and k in args.
ArgsGet(r, k, d) == IF k \in r.given THEN r[k] ELSE d
InArgs(r, k) == k \in r.given

\* The checks a handler of the stdio server makes before it compiles.
StdioUrlCheck(r) ==
    IF ~InArgs(r, "url") \/ r.url = "" THEN "missing"
    ELSE IF ~ToolValidateUrl(r.url) THEN "invalid"
    ELSE "ok"

\* crawler_args of handle_crawl_website.
StdioCrawlArgs(r) ==
    <<"-seed", r.url>>
    \o Flag(ArgsGet(r, "extract_links", FALSE), <<"-extract-links">>)
    \o Flag(InArgs(r, "depth"), <<"-depth", ToString(r.depth)>>)
    \o Flag(InArgs(r, "max_pages"), <<"-max", ToString(r.max_pages)>>)
    \o Flag(InArgs(r, "workers"), <<"-workers", ToString(r.workers)>>)
    \o Flag(InArgs(r, "stay_domain") /\ r.stay_domain = FALSE,
            <<"-stay-domain=false">>)
    \o Flag(InArgs(r, "filter") /\ r.filter # "", <<"-filter", r.filter>>)
    \o Flag(ArgsGet(r, "seed_only", FALSE), <<"-seed-only">>)
    \o Flag(ArgsGet(r, "news", FALSE), <<"-news">>)
    \o Flag(InArgs(r, "delay"), <<"-delay", ToString(r.delay)>>)
    \o Flag(InArgs(r, "timeout"), <<"-timeout", ToString(r.timeout)>>)
    \o Flag(ArgsGet(r, "verbose", FALSE), <<"-verbose">>)

\* crawler_args of the three handlers of the stdio server.
StdioArgs(e, r) ==
    CASE e = "crawl" -> StdioCrawlArgs(r)
      [] e = "scrape" ->
            <<"-seed", r.url, "-seed-only">>
            \o Flag(ArgsGet(r, "extract_links", FALSE), <<"-extract-links">>)
      [] OTHER -> <<"-seed", r.url, "-seed-only", "-extract-links">>

\* The timeout a handler of the stdio server hands to run_crawler.
StdioBudget(e, r) ==
    IF e = "crawl"
    THEN ArgsGet(r, "timeout", 10) * ArgsGet(r, "max_pages", 20) + BudgetSlack
    ELSE SinglePageTimeout

\* request_data of the relay's tools: every parameter with the value given
\* or its default, the filter only when it is not empty.
RelayData(e, r) ==
    Request(CASE e = "crawl" ->
                    (Keys \ {"filter"})
                    \cup (IF ArgsGet(r, "filter", "") # "" THEN {"filter"} ELSE {})
              [] e = "scrape" -> {"url", "extract_links"}
              [] OTHER -> {"url"},
            [k \in Keys |-> ArgsGet(r, k, Defaults[k])])

----------------------------------------------------------------------------
(* The file system and the processes.                                      *)

Absent == [creator |-> NoCall, text |-> EmptyText]
NoProc == [st |-> "none", rc |-> 0, stderr |-> "", output |-> NoPath]

\* Mutant: a name drawn without the exclusive create, which an existing
\* file may have.
MkstempAny(files) == Paths

\* tempfile.NamedTemporaryFile(delete=False): a name no existing file has.
\* The names are interchangeable, so the least unused name stands for
\* whichever unused name the library draws.
Mkstemp(files) ==
    {p \in Paths : /\ files[p].creator = NoCall
                   /\ \A q \in 1..(p - 1) : files[q].creator # NoCall}

CreateFile(files, p, c) == [files EXCEPT ![p] = [creator |-> c, text |-> EmptyText]]

\* Mutant: the finally clause does not unlink.
UnlinkSkipped(files, p) == files

\* Mutant: the cleanup removes every file of the temporary directory.
UnlinkAll(files, p) == [q \in Paths |-> Absent]

\* os.unlink(output_file) inside try/except Exception: pass.
Unlink(files, p) == [files EXCEPT ![p] = Absent]

\* Mutant: the timed-out process is left running.
KillSkipped(p) == p

\* process.kill() / the kill subprocess.run does on TimeoutExpired.
Kill(p) == [p EXCEPT !.st = "killed"]

\* Mutant: the wait has no deadline.
TimeoutNever(p) == FALSE

\* timeout=timeout: the wait on a process ends by its deadline if the
\* process has not ended before.
TimeoutExpires(p) == p.st = "running"

\* How the wait on process p ended when it did not time out.
WaitResult(p) == IF p.st = "nolaunch" THEN "nolaunch" ELSE "returned"

\* error_msg = stderr if stderr else "Unknown error"
ErrorMsg(stderr) == IF stderr # "" THEN stderr ELSE "Unknown error"

\* What an adapter answers: an HTTP status code (0 where there is none), the
\* text of an error, the payload, and whether an exception left the handler.
Resp(code, text, data, raised) ==
    [code |-> code, text |-> text, data |-> data, raised |-> raised]
NoResponse == Resp(0, <<>>, JNull, FALSE)

----------------------------------------------------------------------------
(* api/main.py                                                             *)

\* The try body of run_crawler once subprocess.run has ended: w says how
\* ("returned", "timeout": it raised TimeoutExpired, "nolaunch": it raised
\* OSError), p is the process.
ApiTryBody(w, p, file, ioerr) ==
    IF w = "nolaunch"
    THEN Raise(Exception("OSError", <<"No such file or directory">>))
    ELSE IF w = "timeout"
    THEN Raise(Exception("TimeoutExpired", <<"timed out">>))
    ELSE IF p.rc # 0
    THEN Raise(HTTPException(500, <<"Crawler failed: ", ErrorMsg(p.stderr)>>))
    ELSE JsonLoad(file, ioerr)

\* The except clauses of run_crawler, in their order.
ApiExcept(r) ==
    IF ~r.raised THEN r
    ELSE IF r.exc.type = "TimeoutExpired"
    THEN Raise(HTTPException(504, <<"Crawler timed out after ", "{timeout}", " seconds">>))
    ELSE IF r.exc.type = "JSONDecodeError"
    THEN Raise(HTTPException(500, <<"Failed to parse crawler output">>))
    ELSE Raise(HTTPException(500, <<"Unexpected error: ">> \o Str(r.exc)))

ApiRunCrawler(w, p, file, ioerr) == ApiExcept(ApiTryBody(w, p, file, ioerr))

ResponseValidationError ==
    Exception("ValidationError", <<"validation error for response model">>)

\* crawl_website after run_crawler: len(data), CrawlResponse(pages=data).
CrawlEndpoint(r) ==
    IF r.raised THEN r
    ELSE IF ~HasLen(r.data)
    THEN Raise(Exception("TypeError", <<"object has no len()">>))
    ELSE IF ~ValidPages(r.data) THEN Raise(ResponseValidationError)
    ELSE Return(PagesOut(r.data))

\* scrape_page after run_crawler.
ScrapeEndpoint(r) ==
    IF r.raised THEN r
    ELSE IF ~Truthy(r.data)
    THEN Raise(HTTPException(404, <<"No data returned from the page">>))
    ELSE IF ~IsList(r.data) THEN Raise(Exception("KeyError", <<"0">>))
    ELSE IF ~ValidPage(r.data.items[1]) THEN Raise(ResponseValidationError)
    ELSE Return([t |-> "page", n |-> 1, items |-> <<PageDataOut(r.data.items[1])>>])

\* page.get("links", [])
LinksOf(page) == IF page.haslinks THEN page.links ELSE <<>>
\* page.get("links", []) is None: the key is there and holds null.
LinksIsNone(page) == page.haslinks /\ "links" \in page.nulls
NoneHasNoLen == Exception("TypeError", <<"object of type 'NoneType' has no len()">>)

\* LinksResponse(url=..., links_found=len(links), links=links), and the
\* response dictionary of handle_get_page_links.
LinksResponse(url, links) ==
    [t |-> "links", n |-> Len(links), items |-> links, url |-> url]

\* extract_links after run_crawler.
LinksEndpoint(r, url) ==
    IF r.raised THEN r
    ELSE IF ~Truthy(r.data)
    THEN Raise(HTTPException(404, <<"No data returned from the page">>))
    ELSE IF ~IsList(r.data) THEN Raise(Exception("KeyError", <<"0">>))
    ELSE IF LinksIsNone(r.data.items[1]) THEN Raise(NoneHasNoLen)
    ELSE Return(LinksResponse(url, LinksOf(r.data.items[1])))

ApiEndpoint(e, r, url) ==
    CASE e = "crawl" -> CrawlEndpoint(r)
      [] e = "scrape" -> ScrapeEndpoint(r)
      [] OTHER -> LinksEndpoint(r, url)

\* Exception classes that derive from ValueError.
ValueErrors == {"ValueError", "ValidationError", "JSONDecodeError"}

\* FastAPI's answer to what the endpoint returned or raised: an
\* HTTPException by its status code, then value_error_handler, then
\* general_exception_handler.
ApiRespond(r) ==
    IF ~r.raised THEN Resp(200, <<>>, r.data, FALSE)
    ELSE IF r.exc.type = "HTTPException"
    THEN Resp(r.exc.status_code, r.exc.detail, JNull, FALSE)
    ELSE IF r.exc.type \in ValueErrors
    THEN Resp(400, <<"Validation error: ">> \o Str(r.exc), JNull, FALSE)
    ELSE Resp(500, <<"Internal server error: ">> \o Str(r.exc), JNull, FALSE)

\* The whole answer of the API to a validated request.
ApiAnswer(e, url, w, p, file, ioerr) ==
    ApiRespond(ApiEndpoint(e, ApiRunCrawler(w, p, file, ioerr), url))

\* The answer to a request body the request model rejects.
ApiReject == Resp(422, <<"value_error">>, JNull, FALSE)

\* The terminal state an answer of the API amounts to.
ApiStatus(resp) ==
    IF resp.code = 200 THEN "Succeeded"
    ELSE IF resp.code = 504 THEN "TimedOut"
    ELSE "Failed"


----------------------------------------------------------------------------
(* mcp-server/server.py                                                    *)

\* The try body of run_crawler once the wait on the process has ended: w
\* says how ("returned", "timeout": wait_for raised TimeoutError, "nolaunch":
\* create_subprocess_exec raised OSError).
StdioTryBody(w, p, file, ioerr) ==
    IF w = "nolaunch"
    THEN Raise(Exception("OSError", <<"No such file or directory">>))
    ELSE IF w = "timeout"
    THEN Raise(Exception("RuntimeError",
                         <<"Crawler timed out after ", "{timeout}", " seconds">>))
    ELSE IF p.rc # 0
    THEN Raise(Exception("RuntimeError", <<"Crawler failed: ", ErrorMsg(p.stderr)>>))
    ELSE JsonLoad(file, ioerr)

\* run_crawler has no except clause: what the body raises leaves it.
StdioRunCrawler(w, p, file, ioerr) == StdioTryBody(w, p, file, ioerr)

\* The text a handler returns for an exception caught by its except clause.
ErrorText(prefix, e) == Resp(0, <<prefix>> \o Str(e), JNull, FALSE)
NoDataText == Resp(0, <<"No data returned from the page">>, JNull, FALSE)

\* handle_crawl_website from its try on.
StdioCrawl(r) ==
    IF r.raised THEN ErrorText("Error crawling website: ", r.exc)
    ELSE IF ~HasLen(r.data)
    THEN ErrorText("Error crawling website: ",
                   Exception("TypeError", <<"object has no len()">>))
    ELSE Resp(0, <<>>, r.data, FALSE)

\* handle_quick_scrape from its try on.
StdioScrape(r) ==
    IF r.raised THEN ErrorText("Error scraping page: ", r.exc)
    ELSE IF ~Truthy(r.data) THEN NoDataText
    ELSE IF ~IsList(r.data)
    THEN ErrorText("Error scraping page: ", Exception("KeyError", <<"0">>))
    ELSE Resp(0, <<>>, [t |-> "page", n |-> 1, items |-> <<r.data.items[1]>>], FALSE)

\* handle_get_page_links from its try on.
StdioLinks(r, url) ==
    IF r.raised THEN ErrorText("Error extracting links: ", r.exc)
    ELSE IF ~Truthy(r.data) THEN NoDataText
    ELSE IF ~IsList(r.data)
    THEN ErrorText("Error extracting links: ", Exception("KeyError", <<"0">>))
    ELSE IF LinksIsNone(r.data.items[1])
    THEN ErrorText("Error extracting links: ", NoneHasNoLen)
    ELSE Resp(0, <<>>, LinksResponse(url, LinksOf(r.data.items[1])), FALSE)

StdioAnswer(e, url, w, p, file, ioerr) ==
    CASE e = "crawl" -> StdioCrawl(StdioRunCrawler(w, p, file, ioerr))
      [] e = "scrape" -> StdioScrape(StdioRunCrawler(w, p, file, ioerr))
      [] OTHER -> StdioLinks(StdioRunCrawler(w, p, file, ioerr), url)

\* A handler's ValueError for a missing or invalid url leaves call_tool.
StdioReject(why) ==
    Resp(0, IF why = "missing" THEN <<"URL is required">> ELSE <<"Invalid URL: ", "{url}">>,
         JNull, TRUE)

\* The terminal state a tool's text amounts to (both tool servers).
ToolStatus(resp) ==
    IF resp.text = <<>> THEN "Succeeded"
    ELSE IF \E i \in 1..Len(resp.text) : resp.text[i] = "Crawler timed out after "
    THEN "TimedOut"
    ELSE "Failed"

----------------------------------------------------------------------------
(* mcp-server/server_http.py                                               *)

\* What the POST to the upstream API may come to: an HTTP response, a
\* connection failure, or no answer within the client's timeout.
Upstream(kind, resp) == [kind |-> kind, resp |-> resp]

\* call_crawler_api
CallCrawlerApi(u) ==
    IF u.kind = "response" /\ u.resp.code \in 200..299 THEN Return(u.resp.data)
    ELSE IF u.kind = "response"
    THEN Raise(Exception("Exception", <<"Crawler API error: ">> \o u.resp.text))
    ELSE IF u.kind = "timeout"
    THEN Raise(Exception("Exception", <<"Failed to call Crawler API: ", "timed out">>))
    ELSE Raise(Exception("Exception",
                         <<"Failed to call Crawler API: ", "All connection attempts failed">>))

\* The error prefix of each tool.
RelayPrefix(e) ==
    CASE e = "crawl" -> "Error crawling website: "
      [] e = "scrape" -> "Error scraping page: "
      [] OTHER -> "Error extracting links: "

\* Mutant: the tool has no except clause.
RelayAnswerUncaught(e, u) ==
    LET r == CallCrawlerApi(u)
    IN  IF r.raised THEN Resp(0, Str(r.exc), JNull, TRUE)
        ELSE Resp(0, <<>>, r.data, FALSE)

\* crawl_website, quick_scrape, get_page_links from their try on.
RelayAnswer(e, u) ==
    LET r == CallCrawlerApi(u)
    IN  IF r.raised THEN ErrorText(RelayPrefix(e), r.exc)
        ELSE Resp(0, <<>>, r.data, FALSE)

\* The answer of a tool to a url validate_url refuses.
RelayReject == Resp(0, <<"Invalid URL: ", "{url}">>, JNull, FALSE)

\* The terminal state of a relayed call.
RelayStatus(u, resp) ==
    IF resp.text = <<>> THEN "Succeeded"
    ELSE IF u.kind = "timeout" THEN "TimedOut"
    ELSE ToolStatus(resp)

----------------------------------------------------------------------------
(* The requests the calls come with.                                       *)

GoodUrl == "https://example.com"

\* The request that carries a url and nothing else.
UrlOnly(url) == Request({"url"}, [Defaults EXCEPT !.url = url])

\* Request r with key k set to v.
With(r, k, v) == [r EXCEPT ![k] = v, !.given = @ \cup {k}]

\* The requests of the calls that run side by side: one every adapter
\* accepts, one with a url every adapter refuses and, for the stdio server,
\* one without a url.
SomeRequests(a) ==
    {UrlOnly(GoodUrl), UrlOnly("ftp://example.com")}
    \cup (IF a = "stdio" THEN {NoRequest} ELSE {})

\* Urls on which the validators differ or agree.
Urls ==
    {GoodUrl, "http://", "https:///path", "HTTP://example.com",
     "ftp://example.com", "example.com", ""}

\* The values tried for (timeout, max_pages): the bounds, their neighbours
\* inside and outside, and zero.
TimeoutsTried == {0, Ge.timeout, Ge.timeout + 1, Le.timeout}
MaxPagesTried == {Ge.max_pages, Ge.max_pages + 1, Le.max_pages}

\* The requests a single call is tried with: no url; each url; each numeric
\* field at and just outside its bounds; pairs of timeout and max_pages;
\* each flag set and cleared; a filter, empty or not.
AllRequests ==
    {NoRequest}
    \cup {UrlOnly(u) : u \in Urls}
    \cup UNION {{With(UrlOnly(GoodUrl), k, v) :
                    v \in {Ge[k] - 1, Ge[k], Le[k], Le[k] + 1}} : k \in NumericKeys}
    \cup {With(With(UrlOnly(GoodUrl), "timeout", t), "max_pages", m) :
            t \in TimeoutsTried, m \in MaxPagesTried}
    \cup UNION {{With(UrlOnly(GoodUrl), k, b) : b \in BOOLEAN} :
                k \in {"extract_links", "stay_domain", "seed_only", "news", "verbose"}}
    \cup {With(UrlOnly(GoodUrl), "filter", f) : f \in {"", "/wiki/"}}

----------------------------------------------------------------------------
\* A call that has created, launched and posted nothing.
NoEffects == [files |-> 0, launches |-> 0, posts |-> 0]

Init ==
    /\ status = [c \in Calls |-> "Idle"]
    /\ adapter = [c \in Calls |-> "none"]
    /\ endpoint = [c \in Calls |-> "none"]
    /\ path = [c \in Calls |-> NoPath]
    /\ proc = [c \in Calls |-> NoProc]
    /\ response = [c \in Calls |-> NoResponse]
    /\ fs = [p \in Paths |-> Absent]
    /\ loopOwner = NoCall
    /\ request = [c \in Calls |-> NoRequest]
    /\ tokens = [c \in Calls |-> <<>>]
    /\ budget = [c \in Calls |-> 0]
    /\ effects = [c \in Calls |-> NoEffects]

\* A request reaches one of the three servers.
Arrive(c) ==
    /\ status[c] = "Idle"
    /\ \A b \in Calls : b < c => status[b] # "Idle"
    /\ \E a \in Adapters, e \in EndpointsOf(c) :
        /\ adapter' = [adapter EXCEPT ![c] = a]
        /\ endpoint' = [endpoint EXCEPT ![c] = e]
    /\ status' = [status EXCEPT ![c] = "Queued"]
    /\ UNCHANGED <<path, proc, response, fs, loopOwner, request, tokens, budget, effects>>

\* The handler of an API request starts: the request model validates the
\* body, the endpoint compiles the arguments and run_crawler creates its
\* temporary file.  Nothing awaits from here to the response, so the handler
\* keeps the server's event loop until ApiFinish or ApiTimeout.
ApiBeginFrom(c, bodies) ==
    /\ status[c] = "Queued" /\ adapter[c] = "api"
    /\ loopOwner = NoCall
    /\ \E r \in bodies :
        /\ request' = [request EXCEPT ![c] = r]
        /\ IF ApiValid(endpoint[c], r)
           THEN \E p \in Mkstemp(fs) :
                   /\ tokens' = [tokens EXCEPT ![c] = ApiArgs(endpoint[c], r)]
                   /\ budget' = [budget EXCEPT ![c] = ApiBudget(endpoint[c], r)]
                   /\ path' = [path EXCEPT ![c] = p]
                   /\ fs' = CreateFile(fs, p, c)
                   /\ effects' = [effects EXCEPT ![c].files = @ + 1]
                   /\ status' = [status EXCEPT ![c] = "Pending"]
                   /\ loopOwner' = c
                   /\ UNCHANGED response
           ELSE /\ status' = [status EXCEPT ![c] = "Rejected"]
                /\ response' = [response EXCEPT ![c] = ApiReject]
                /\ UNCHANGED <<path, fs, loopOwner, tokens, budget, effects>>
    /\ UNCHANGED <<adapter, endpoint, proc>>

ApiBegin(c) == ApiBeginFrom(c, SomeRequests("api"))

\* Mutant: the handler stays where it launches from.
LaunchAgain(c, ok) ==
    /\ proc' = [proc EXCEPT ![c] =
                  [st |-> IF ok THEN "running" ELSE "nolaunch",
                   rc |-> 0, stderr |-> "", output |-> path[c]]]
    /\ effects' = [effects EXCEPT ![c].launches = @ + 1]
    /\ UNCHANGED <<status, adapter, endpoint, path, response, fs, loopOwner>>
    /\ UNCHANGED <<request, tokens, budget>>

\* cmd = [binary, "-output", output_file] + args; the process starts, or
\* fails to.
Launch(c, ok) ==
    /\ proc' = [proc EXCEPT ![c] =
                  [st |-> IF ok THEN "running" ELSE "nolaunch",
                   rc |-> 0, stderr |-> "", output |-> path[c]]]
    /\ status' = [status EXCEPT ![c] = "Running"]
    /\ effects' = [effects EXCEPT ![c].launches = @ + 1]
    /\ UNCHANGED <<adapter, endpoint, path, response, fs, loopOwner>>
    /\ UNCHANGED <<request, tokens, budget>>

\* subprocess.run(cmd, capture_output=True, text=True, timeout=timeout) is
\* entered.
ApiLaunch(c) ==
    /\ status[c] = "Pending" /\ adapter[c] = "api"
    /\ \E ok \in LaunchOks(c) : Launch(c, ok)

\* The executable ends by itself: it has written its output file and exits
\* with a status and a diagnostic text.
ProcExitFrom(c, outcomes) ==
    /\ proc[c].st = "running"
    /\ \E o \in outcomes :
        /\ proc' = [proc EXCEPT ![c].st = "exited", ![c].rc = o.rc,
                                ![c].stderr = o.stderr]
        /\ fs' = [fs EXCEPT ![proc[c].output].text = o.text]
    /\ UNCHANGED <<status, adapter, endpoint, path, response, loopOwner>>
    /\ UNCHANGED <<request, tokens, budget, effects>>

ProcExit(c) == ProcExitFrom(c, Outcomes(c))

\* Mutant: a failed call is retried.
FinishRetry(c, p, resp, st) ==
    /\ response' = [response EXCEPT ![c] = resp]
    /\ status' = [status EXCEPT ![c] = IF st = "Failed" THEN "Pending" ELSE st]
    /\ fs' = [fs EXCEPT ![path[c]].text = EmptyText]
    /\ path' = path
    /\ proc' = [proc EXCEPT ![c] = NoProc]

\* run_crawler and the handler end: the answer is recorded, the finally
\* clause has unlinked the file, and the locals of run_crawler (the file
\* name, the result of the process) are gone; of process p it remains
\* whether it still runs.
Finish(c, p, resp, st) ==
    /\ response' = [response EXCEPT ![c] = resp]
    /\ status' = [status EXCEPT ![c] = st]
    /\ fs' = Unlink(fs, path[c])
    /\ path' = [path EXCEPT ![c] = NoPath]
    /\ proc' = [proc EXCEPT ![c] = [NoProc EXCEPT !.st = p.st]]

\* subprocess.run returns (or raises OSError): the rest of run_crawler and
\* of the endpoint runs to the response.
ApiFinish(c) ==
    /\ status[c] = "Running" /\ adapter[c] = "api"
    /\ proc[c].st \in {"exited", "nolaunch"}
    /\ \E ioerr \in IoErrors(c) :
        LET resp == ApiAnswer(endpoint[c], request[c].url, WaitResult(proc[c]), proc[c],
                              fs[path[c]].text, ioerr)
        IN  Finish(c, proc[c], resp, ApiStatus(resp))
    /\ loopOwner' = NoCall
    /\ UNCHANGED <<adapter, endpoint, request, tokens, budget, effects>>

\* subprocess.run's timeout expires while the process runs: it kills the
\* process and raises TimeoutExpired.
ApiTimeout(c) ==
    /\ status[c] = "Running" /\ adapter[c] = "api"
    /\ TimeoutExpires(proc[c])
    /\ LET p == Kill(proc[c])
           resp == ApiAnswer(endpoint[c], request[c].url, "timeout", p, fs[path[c]].text, FALSE)
       IN  Finish(c, p, resp, ApiStatus(resp))
    /\ loopOwner' = NoCall
    /\ UNCHANGED <<adapter, endpoint, request, tokens, budget, effects>>

\* A tool call of the stdio server starts: the handler checks the url,
\* compiles the arguments and run_crawler creates its temporary file.
StdioBeginFrom(c, arguments) ==
    /\ status[c] = "Queued" /\ adapter[c] = "stdio"
    /\ \E r \in arguments :
        /\ request' = [request EXCEPT ![c] = r]
        /\ IF StdioUrlCheck(r) = "ok"
           THEN \E p \in Mkstemp(fs) :
                   /\ tokens' = [tokens EXCEPT ![c] = StdioArgs(endpoint[c], r)]
                   /\ budget' = [budget EXCEPT ![c] = StdioBudget(endpoint[c], r)]
                   /\ path' = [path EXCEPT ![c] = p]
                   /\ fs' = CreateFile(fs, p, c)
                   /\ effects' = [effects EXCEPT ![c].files = @ + 1]
                   /\ status' = [status EXCEPT ![c] = "Pending"]
                   /\ UNCHANGED response
           ELSE /\ status' = [status EXCEPT ![c] = "Rejected"]
                /\ response' = [response EXCEPT ![c] =
                                  StdioReject(StdioUrlCheck(r))]
                /\ UNCHANGED <<path, fs, tokens, budget, effects>>
    /\ UNCHANGED <<adapter, endpoint, proc, loopOwner>>

StdioBegin(c) == StdioBeginFrom(c, SomeRequests("stdio"))

\* await asyncio.create_subprocess_exec(*cmd, ...)
StdioLaunch(c) ==
    /\ status[c] = "Pending" /\ adapter[c] = "stdio"
    /\ \E ok \in LaunchOks(c) : Launch(c, ok)

\* wait_for(process.communicate()) returns (or create_subprocess_exec
\* raised): the rest of run_crawler and of the handler runs to the text.
StdioFinish(c) ==
    /\ status[c] = "Running" /\ adapter[c] = "stdio"
    /\ proc[c].st \in {"exited", "nolaunch"}
    /\ \E ioerr \in IoErrors(c) :
        LET resp == StdioAnswer(endpoint[c], request[c].url, WaitResult(proc[c]), proc[c],
                                fs[path[c]].text, ioerr)
        IN  Finish(c, proc[c], resp, ToolStatus(resp))
    /\ UNCHANGED <<adapter, endpoint, loopOwner, request, tokens, budget, effects>>

\* wait_for raises TimeoutError while the process runs: process.kill(),
\* then RuntimeError.
StdioTimeout(c) ==
    /\ status[c] = "Running" /\ adapter[c] = "stdio"
    /\ TimeoutExpires(proc[c])
    /\ LET p == Kill(proc[c])
           resp == StdioAnswer(endpoint[c], request[c].url, "timeout", p, fs[path[c]].text, FALSE)
       IN  Finish(c, p, resp, ToolStatus(resp))
    /\ UNCHANGED <<adapter, endpoint, loopOwner, request, tokens, budget, effects>>

\* A tool call of the relay starts: validate_url, then request_data.
RelayBeginFrom(c, arguments) ==
    /\ status[c] = "Queued" /\ adapter[c] = "relay"
    /\ \E r \in {a \in arguments : "url" \in a.given} :
        /\ request' = [request EXCEPT ![c] = r]
        /\ IF ToolValidateUrl(r.url)
           THEN /\ status' = [status EXCEPT ![c] = "Pending"]
                /\ budget' = [budget EXCEPT ![c] = ClientTimeout]
                /\ UNCHANGED response
           ELSE /\ status' = [status EXCEPT ![c] = "Rejected"]
                /\ response' = [response EXCEPT ![c] = RelayReject]
                /\ UNCHANGED budget
    /\ UNCHANGED <<adapter, endpoint, path, proc, fs, loopOwner, tokens, effects>>

RelayBegin(c) == RelayBeginFrom(c, SomeRequests("relay"))

\* await client.post(...) is issued.
RelayPost(c) ==
    /\ status[c] = "Pending" /\ adapter[c] = "relay"
    /\ status' = [status EXCEPT ![c] = "Running"]
    /\ effects' = [effects EXCEPT ![c].posts = @ + 1]
    /\ UNCHANGED <<adapter, endpoint, path, proc, response, fs, loopOwner>>
    /\ UNCHANGED <<request, tokens, budget>>

\* Every answer the API gives on endpoint e to the request_data of call c:
\* the answers of its endpoint, or the answer to a body it rejects.
UpstreamResponses(c, e, outcomes) ==
    IF ApiValid(e, RelayData(e, request[c]))
    THEN { ApiAnswer(e, RelayData(e, request[c]).url, w, [st |-> "exited", rc |-> o.rc, stderr |-> o.stderr,
                            output |-> NoPath], o.text, io) :
             w \in {"returned", "timeout", "nolaunch"}, o \in outcomes,
             io \in IoErrors(c) }
    ELSE {ApiReject}

\* The POST ends: with a response of the upstream API or a connection
\* failure.
RelayRespondFrom(c, outcomes) ==
    /\ status[c] = "Running" /\ adapter[c] = "relay"
    /\ \E u \in {Upstream("response", r) :
                    r \in UpstreamResponses(c, endpoint[c], outcomes)}
                \cup {Upstream("connect", NoResponse)} :
        LET resp == RelayAnswer(endpoint[c], u)
        IN  /\ response' = [response EXCEPT ![c] = resp]
            /\ status' = [status EXCEPT ![c] = RelayStatus(u, resp)]
    /\ UNCHANGED <<adapter, endpoint, path, proc, fs, loopOwner>>
    /\ UNCHANGED <<request, tokens, budget, effects>>

RelayRespond(c) == RelayRespondFrom(c, Outcomes(c))

\* The client's timeout (300 s) expires before the upstream has answered.
RelayTimeout(c) ==
    /\ status[c] = "Running" /\ adapter[c] = "relay"
    /\ LET u == Upstream("timeout", NoResponse)
           resp == RelayAnswer(endpoint[c], u)
       IN  /\ response' = [response EXCEPT ![c] = resp]
           /\ status' = [status EXCEPT ![c] = RelayStatus(u, resp)]
    /\ UNCHANGED <<adapter, endpoint, path, proc, fs, loopOwner>>
    /\ UNCHANGED <<request, tokens, budget, effects>>

Next ==
    \E c \in Calls :
        \/ Arrive(c)
        \/ ApiBegin(c) \/ ApiLaunch(c) \/ ApiFinish(c) \/ ApiTimeout(c)
        \/ StdioBegin(c) \/ StdioLaunch(c) \/ StdioFinish(c) \/ StdioTimeout(c)
        \/ RelayBegin(c) \/ RelayPost(c) \/ RelayRespond(c) \/ RelayTimeout(c)
        \/ ProcExit(c)

Spec == Init /\ [][Next]_vars

\* A step of the handler of call c past its start.
Handler(c) ==
    \/ ApiLaunch(c) \/ ApiFinish(c) \/ ApiTimeout(c)
    \/ StdioLaunch(c) \/ StdioFinish(c) \/ StdioTimeout(c)
    \/ RelayPost(c) \/ RelayTimeout(c)

\* The handlers run to their end: a launch that was decided happens, a wait
\* that has ended is followed by the rest of the handler, and a deadline
\* that is due expires.  Nothing is assumed of the executable and of the
\* upstream API: the process need not end and the POST need not be answered.
Fairness == \A c \in Calls : WF_vars(Handler(c))

FairSpec == Spec /\ Fairness

----------------------------------------------------------------------------
(* Calls that may be cancelled.                                            *)

\* What the channel sees of a cancelled handler: CancelledError is not an
\* Exception, so no except clause of run_crawler or of the handler catches it.
CancelledText == Resp(0, <<"CancelledError">>, JNull, TRUE)

\* The task of a tool call of the stdio server is cancelled while it awaits
\* wait_for(process.communicate()): CancelledError is raised at the await,
\* the clause except asyncio.TimeoutError does not apply, and the finally
\* clause unlinks the file.  The API's handler awaits nothing while
\* subprocess.run blocks, so no cancellation reaches it there.
StdioCancel(c) ==
    /\ status[c] = "Running" /\ adapter[c] = "stdio"
    /\ proc[c].st = "running"
    /\ Finish(c, proc[c], CancelledText, "Cancelled")
    /\ UNCHANGED <<adapter, endpoint, loopOwner, request, tokens, budget, effects>>

CancelNext == Next \/ \E c \in Calls : StdioCancel(c)

CancelSpec == Init /\ [][CancelNext]_vars

----------------------------------------------------------------------------
(* Tool calls by a name the stdio server does not know.                    *)

\* Mutant: call_tool returns nothing for a name it does not know.
UnknownToolIgnored == Resp(0, <<>>, JNull, FALSE)

\* raise ValueError(f"Unknown tool: {name}")
UnknownToolError == Resp(0, <<"Unknown tool: ", "{name}">>, JNull, TRUE)

\* call_tool is called with a name that is none of crawl_website,
\* quick_scrape, get_page_links: the else branch raises.
StdioUnknown(c) ==
    /\ status[c] = "Idle"
    /\ \A b \in Calls : b < c => status[b] # "Idle"
    /\ adapter' = [adapter EXCEPT ![c] = "stdio"]
    /\ endpoint' = [endpoint EXCEPT ![c] = "unknown"]
    /\ status' = [status EXCEPT ![c] = "Rejected"]
    /\ response' = [response EXCEPT ![c] = UnknownToolError]
    /\ UNCHANGED <<path, proc, fs, loopOwner, request, tokens, budget, effects>>

DispatchNext == Next \/ \E c \in Calls : StdioUnknown(c)

DispatchSpec == Init /\ [][DispatchNext]_vars

----------------------------------------------------------------------------
(* One call, tried with every request and every outcome.                   *)

\* Two page records in one file.
TwoPages == JsonText(JArray(<<GoodPage, GoodPage>>))

\* Three records, every field of PageData in each; three records of which
\* one lacks the optional fields and one has a further key.
FullPages == JsonText(JArray(<<FullPage, OtherFullPage, FullPage>>))
\* One record whose "links" key holds null.
NullLinks == JsonText(JArray(<<NullLinksPage>>))
MixedPages == JsonText(JArray(<<FullPage, GoodPage, ExtraPage>>))

\* The outcomes the single call meets.
ManyOutcomes ==
    AllOutcomes
    \cup {Outcome(0, "", t) : t \in {TwoPages, FullPages, MixedPages, NullLinks}}

ApiBeginAny(c) == ApiBeginFrom(c, AllRequests)
StdioBeginAny(c) == StdioBeginFrom(c, AllRequests)
RelayBeginAny(c) == RelayBeginFrom(c, AllRequests)
RelayRespondAny(c) == RelayRespondFrom(c, ManyOutcomes)
ProcExitAny(c) == ProcExitFrom(c, ManyOutcomes)

ReqNext ==
    \E c \in {d \in Calls : Detailed(d)} :
        \/ Arrive(c)
        \/ ApiBeginAny(c) \/ ApiLaunch(c) \/ ApiFinish(c) \/ ApiTimeout(c)
        \/ StdioBeginAny(c) \/ StdioLaunch(c) \/ StdioFinish(c) \/ StdioTimeout(c)
        \/ RelayBeginAny(c) \/ RelayPost(c) \/ RelayRespondAny(c) \/ RelayTimeout(c)
        \/ ProcExitAny(c)

ReqSpec == Init /\ [][ReqNext]_vars

----------------------------------------------------------------------------
(* The claims.                                                             *)

Spawning == {"api", "stdio"}
Alive(c) == path[c] # NoPath
FilesOf(c) == {p \in Paths : fs[p].creator = c}

\* C1: once a run_crawler invocation of the API or of the stdio server has
\* returned or raised, however it ended, the temporary file it created
\* does not exist.
C1_ChannelReleased ==
    \A c \in Calls :
        (adapter[c] \in Spawning /\ status[c] \in Terminal) => FilesOf(c) = {}

\* Two invocations have ended, one whose executable could not be launched
\* and one that timed out, and no file is left.
C1_Witness ==
    \E c, d \in Calls :
        /\ adapter[c] = "api" /\ status[c] = "Failed" /\ proc[c].st = "nolaunch"
        /\ adapter[d] = "stdio" /\ status[d] = "TimedOut"
        /\ \A p \in Paths : fs[p] = Absent

\* C2: a call whose wait exceeded its budget has had its process killed and
\* is classified as timed out; no call has ended, timed out or otherwise,
\* with the process it spawned still running.
C2_TimedOutProcessKilled ==
    \A c \in Calls :
        /\ adapter[c] \in Spawning =>
              (status[c] = "TimedOut" <=> proc[c].st = "killed")
        /\ status[c] \in Terminal => proc[c].st # "running"

\* A call of each spawning adapter has timed out; its process is killed.
C2_Witness ==
    \E c, d \in Calls :
        /\ adapter[c] = "api" /\ status[c] = "TimedOut" /\ proc[c].st = "killed"
        /\ adapter[d] = "stdio" /\ status[d] = "TimedOut" /\ proc[d].st = "killed"

\* C3: a call moves only along Pending -> Running -> Succeeded, Failed or
\* TimedOut; once in a terminal state it stays in it, with the answer it
\* has given.
C3_StateMachine ==
    [][\A c \in Calls :
          /\ status[c] = "Pending" => status'[c] \in {"Pending", "Running"}
          /\ status[c] = "Running" => status'[c] \in {"Running"} \cup Terminal
          /\ status[c] \in Terminal =>
                status'[c] = status[c] /\ response'[c] = response[c]
          /\ status'[c] = "Pending" => status[c] \in {"Queued", "Pending"}
          /\ status'[c] = "Running" => status[c] \in {"Pending", "Running"}
          /\ status'[c] \in Terminal => status[c] \in {"Running", status'[c]}
      ]_vars

\* Two calls have ended in different terminal states.
C3_Witness ==
    \E c, d \in Calls :
        /\ adapter[c] = "relay" /\ status[c] = "Succeeded"
        /\ adapter[d] = "api" /\ status[d] = "Failed"

C5_ExclusiveChannel ==
    \A c \in Calls :
        Alive(c) =>
            /\ fs[path[c]].creator = c
            /\ proc[c].st \in {"running", "exited"} => proc[c].output = path[c]
            /\ \A d \in Calls \ {c} :
                  path[d] # path[c] /\ proc[d].output # path[c]

\* Two calls run their executables at the same time, each on its own file.
C5_Witness ==
    \E c, d \in Calls :
        /\ c # d /\ Alive(c) /\ Alive(d)
        /\ proc[c].st = "running" /\ proc[d].st = "running"
        /\ proc[c].output # proc[d].output

\* C6: in the API, while one request waits on its executable, a second
\* request that has arrived can start its own handler (and so its own
\* executable): the wait suspends only the first request's task.
C6_SecondRequestCanStart ==
    \A c, d \in Calls :
        ( /\ adapter[c] = "api" /\ status[c] = "Running" /\ proc[c].st = "running"
          /\ adapter[d] = "api" /\ status[d] = "Queued"
          /\ Mkstemp(fs) # {} )
        => ENABLED ApiBegin(d)

\* C7: the step by which a call times out ends its own process and removes
\* its own file, and leaves every other call as it was: state, process,
\* file name, file and answer.
C7_TimeoutIsLocal ==
    [][\A c \in Calls :
          (status[c] = "Running" /\ status'[c] = "TimedOut") =>
              /\ proc'[c].st # "running"
              /\ \A p \in Paths : fs'[p].creator # c
              /\ \A d \in Calls \ {c} :
                    /\ status'[d] = status[d] /\ proc'[d] = proc[d]
                    /\ path'[d] = path[d] /\ response'[d] = response[d]
                    /\ \A p \in Paths : fs[p].creator = d => fs'[p] = fs[p]
      ]_vars

\* A call has timed out while another one goes on running on its file.
C7_Witness ==
    \E c, d \in Calls :
        /\ adapter[c] \in Spawning /\ status[c] = "TimedOut"
        /\ status[d] = "Running" /\ proc[d].st = "running"
        /\ fs[path[d]].creator = d

\* The failure an answer carries, read off its text: the API answers with
\* the detail of the HTTPException, a tool with its prefix and str(e).
FailureOf(a, resp) ==
    LET t == IF a = "api" \/ resp.text = <<>> THEN resp.text ELSE Tail(resp.text)
    IN  IF t = <<>> THEN [kind |-> "None", message |-> ""]
        ELSE IF Len(t) = 2 /\ t[1] = "Crawler failed: "
        THEN [kind |-> "ExecutorError", message |-> t[2]]
        ELSE IF t[1] = "Crawler timed out after "
        THEN [kind |-> "Timeout", message |-> ""]
        ELSE IF t[1] \in {"Failed to parse crawler output", "Expecting value"}
        THEN [kind |-> "MalformedOutput", message |-> ""]
        ELSE [kind |-> "Other", message |-> ""]

\* The step by which run_crawler and the handler of call c end after the
\* executable has exited.
Ends(c) ==
    /\ adapter[c] \in Spawning
    /\ status[c] = "Running" /\ proc[c].st = "exited"
    /\ status'[c] \in Terminal

\* The file does not hold a JSON array of page records.
Malformed(text) == ~text.json \/ ~ValidPages(text.value)

\* C8: after a non-zero exit the adapter receives a failure of kind
\* ExecutorError whose message is the diagnostic text ("Unknown error" for
\* an empty one), as it was raised.
C8_ExecutorErrorUnmodified ==
    [][\A c \in Calls :
          (Ends(c) /\ proc[c].rc # 0) =>
              /\ status'[c] = "Failed"
              /\ FailureOf(adapter[c], response'[c]) =
                    [kind |-> "ExecutorError", message |-> ErrorMsg(proc[c].stderr)]
      ]_vars

\* C9: after a zero exit with an output file that is not a JSON array of
\* page records the call fails: it is not answered as a success, as not
\* found, as a client error or by an unhandled exception.
C9_MalformedOutputFails ==
    [][\A c \in Calls :
          (Ends(c) /\ proc[c].rc = 0 /\ Malformed(fs[path[c]].text)) =>
              /\ status'[c] = "Failed"
              /\ response'[c].code \notin 200..499
              /\ ~response'[c].raised
              /\ response'[c].text[1] \notin
                    {"No data returned from the page", "Internal server error: "}
      ]_vars

\* C10: the API answers a rejected request with 4xx, a timeout with 504,
\* an executor error and a malformed output with 500.
C10_StatusCodes ==
    [][\A c \in Calls :
          adapter[c] = "api" =>
              /\ (status[c] = "Queued" /\ status'[c] = "Rejected") =>
                    response'[c].code \in 400..499
              /\ (status[c] = "Running" /\ proc[c].st = "running"
                    /\ status'[c] \in Terminal) =>
                    response'[c].code = 504
              /\ (Ends(c) /\ proc[c].rc # 0) => response'[c].code = 500
              /\ (Ends(c) /\ proc[c].rc = 0 /\ Malformed(fs[path[c]].text)) =>
                    response'[c].code = 500
      ]_vars

\* The answer says that the output file could not be opened.
ReadFailed(resp) ==
    \E i \in 1..Len(resp.text) : resp.text[i] = "cannot open output file"

\* C11: in the API, after a zero exit with an output file holding the empty
\* JSON array (and read without error), /crawl answers 200 with
\* pages_crawled = 0 and pages = [], while /scrape and /links answer 404.
C11_EmptyArray ==
    [][\A c \in Calls :
          ( /\ Ends(c) /\ adapter[c] = "api" /\ proc[c].rc = 0
            /\ fs[path[c]].text = JsonText(JArray(<<>>))
            /\ ~ReadFailed(response'[c]) )
          => IF endpoint[c] = "crawl"
             THEN /\ status'[c] = "Succeeded"
                  /\ response'[c].code = 200
                  /\ response'[c].data.n = 0
                  /\ response'[c].data.items = <<>>
             ELSE /\ response'[c].code = 404
                  /\ response'[c].text = <<"No data returned from the page">>
      ]_vars

\* A /crawl request has been answered 200 with no page.
C11_Witness ==
    \E c \in Calls :
        /\ adapter[c] = "api" /\ endpoint[c] = "crawl"
        /\ status[c] = "Succeeded" /\ response[c].code = 200
        /\ response[c].data.t = "array" /\ response[c].data.n = 0

\* C12: in the stdio server every tool call, whatever its arguments and
\* however it fails, ends with text content (a result or the description of
\* an error); no exception leaves the handler.
C12_StdioNeverRaises ==
    \A c \in Calls :
        (adapter[c] = "stdio" /\ status[c] \in Terminal \cup {"Rejected"}) =>
            /\ ~response[c].raised
            /\ status[c] # "Succeeded" => response[c].text # <<>>

\* What the POST of relay call c may come to.
RelayUpstreams(c) ==
    {Upstream("response", r) : r \in UpstreamResponses(c, endpoint[c], Outcomes(c))}
    \cup {Upstream("connect", NoResponse), Upstream("timeout", NoResponse)}

\* The upstream answered with a 2xx response.
UpstreamOk(u) == u.kind = "response" /\ u.resp.code \in 200..299

\* The text carries an error field.
HasErrorField(resp) == resp.text # <<>> /\ resp.data = JNull

\* C13: every tool call of the relay returns a string: after a non-2xx
\* response of the upstream API, a connection failure or a client-side
\* timeout, and for a url refused locally, the string carries an error
\* field, and no exception leaves the tool function.
C13_RelayErrorsAsText ==
    [][\A c \in Calls :
          adapter[c] = "relay" =>
              /\ (status[c] = "Running" /\ status'[c] \in Terminal) =>
                    /\ ~response'[c].raised
                    /\ \E u \in RelayUpstreams(c) :
                          response'[c] = RelayAnswer(endpoint[c], u)
                    /\ \A u \in RelayUpstreams(c) :
                          (response'[c] = RelayAnswer(endpoint[c], u) /\ ~UpstreamOk(u))
                              => HasErrorField(response'[c])
              /\ (status[c] = "Queued" /\ status'[c] = "Rejected") =>
                    ~response'[c].raised /\ HasErrorField(response'[c])
      ]_vars

\* One relayed call has ended on a non-2xx response of the upstream API and
\* another on a connection failure, each with an error text.
C13_Witness ==
    \E c, d \in Calls :
        /\ adapter[c] = "relay" /\ status[c] = "Failed"
        /\ Len(response[c].text) > 1 /\ response[c].text[2] = "Crawler API error: "
        /\ adapter[d] = "relay" /\ status[d] = "Failed"
        /\ Len(response[d].text) > 1
        /\ response[d].text[2] = "Failed to call Crawler API: "

\* The handler of call c has taken its request.
Taken(c) == status[c] \notin {"Idle", "Queued"}

\* The time budget the API computes for the request_data of relay call c.
UpstreamBudget(c) == ApiBudget(endpoint[c], RelayData(endpoint[c], request[c]))

\* C14: for every valid crawl request the relay forwards, the deadline of
\* its HTTP call is at least the time budget the API computes for that
\* request.
C14_RelayDeadlineCovers ==
    \A c \in Calls :
        ( /\ adapter[c] = "relay" /\ endpoint[c] = "crawl"
          /\ status[c] \in {"Pending", "Running"}
          /\ ApiValid("crawl", RelayData("crawl", request[c])) )
        => budget[c] >= UpstreamBudget(c)

\* A numeric field of the request lies outside its declared bounds.
OutOfBounds(r) == \E k \in NumericKeys : k \in r.given /\ ~InBounds(k, r[k])

\* Adapter a declares request r invalid for operation e: its url is
\* missing or fails the adapter's validator, or (crawl) a numeric field
\* lies outside the bounds the adapter declares.
InvalidFor(a, e, r) ==
    \/ "url" \notin r.given
    \/ IF a = "api" THEN ~ApiValidateUrl(r.url) ELSE ~ToolValidateUrl(r.url)
    \/ e = "crawl" /\ OutOfBounds(r)

\* C15: a request whose url is invalid or whose depth, max_pages, workers,
\* delay or timeout lies outside its bounds is rejected before compilation:
\* no tokens are compiled, no output file is created and no executable is
\* launched for it (through the relay: the call does not succeed).
C15_ValidatedBeforeCompile ==
    \A c \in Calls :
        (Taken(c) /\ InvalidFor(adapter[c], endpoint[c], request[c])) =>
            IF adapter[c] \in Spawning
            THEN /\ status[c] = "Rejected"
                 /\ tokens[c] = <<>>
                 /\ path[c] = NoPath /\ FilesOf(c) = {}
                 /\ proc[c].st = "none"
            ELSE status[c] # "Succeeded"

\* The executable's option for each numeric field of the request.
FlagOf ==
    [depth |-> "-depth", max_pages |-> "-max", workers |-> "-workers",
     delay |-> "-delay", timeout |-> "-timeout"]

\* Token list toks holds the option flag immediately followed by value.
HasPair(toks, flag, value) ==
    \E i \in 1..(Len(toks) - 1) : toks[i] = flag /\ toks[i + 1] = value

\* Call c is a crawl whose valid request the adapter has compiled.
CompiledCrawl(c) ==
    /\ adapter[c] \in Spawning
    /\ endpoint[c] = "crawl"
    /\ status[c] = "Pending"
    /\ ~InvalidFor(adapter[c], "crawl", request[c])

\* C16: for every valid crawl request compiled by POST /crawl or by the
\* stdio crawl_website tool, the tokens begin with -seed <url> and hold
\* -depth, -max, -workers, -delay and -timeout, each followed by the
\* field's value (the caller's, or the default when the caller gave none).
C16_ExplicitNumericTokens ==
    \A c \in Calls :
        CompiledCrawl(c) =>
            /\ Len(tokens[c]) >= 2
            /\ SubSeq(tokens[c], 1, 2) = <<"-seed", request[c].url>>
            /\ \A k \in NumericKeys :
                   HasPair(tokens[c], FlagOf[k],
                           ToString(ApiField(request[c], k)))

\* Call c is a POST /crawl the API accepted with seed_only = true.
SeedOnlyCrawl(c) ==
    /\ adapter[c] = "api" /\ endpoint[c] = "crawl"
    /\ Taken(c) /\ status[c] # "Rejected"
    /\ ApiField(request[c], "seed_only")

\* pages_crawled of a CrawlResponse: len(data).
PagesCrawled(resp) == resp.data.n

\* C17: for every POST /crawl with seed_only = true the compiled tokens
\* hold -seed-only, and a response that succeeds reports at most one page,
\* whatever the executable wrote to its output file.
C17_SeedOnlyOnePage ==
    \A c \in Calls :
        SeedOnlyCrawl(c) =>
            /\ \E i \in 1..Len(tokens[c]) : tokens[c][i] = "-seed-only"
            /\ status[c] = "Succeeded" => PagesCrawled(response[c]) <= 1

\* Adapter a lets crawl request r reach the computation of its budget.
ReachesBudget(a, r) ==
    IF a = "api" THEN ApiValid("crawl", r) ELSE StdioUrlCheck(r) = "ok"

\* The time budget adapter a computes for crawl request r.
BudgetOf(a, r) ==
    IF a = "api" THEN ApiBudget("crawl", r) ELSE StdioBudget("crawl", r)

\* Request r2 differs from r1 only in that its field k is larger.
LargerIn(k, r1, r2) ==
    /\ ApiField(r2, k) > ApiField(r1, k)
    /\ \A j \in Keys \ {k} : ApiField(r2, j) = ApiField(r1, j)

\* C18: the time budget of a crawl call is strictly increasing in max_pages
\* and in timeout: every request the adapter lets reach the computation
\* that differs from the call's request only in a larger max_pages, or only
\* in a larger timeout, gets a strictly larger budget (POST /crawl and the
\* stdio crawl_website tool).
C18_BudgetStrictlyIncreasing ==
    \A c \in Calls :
        ( /\ adapter[c] \in Spawning /\ endpoint[c] = "crawl"
          /\ Taken(c) /\ status[c] # "Rejected" ) =>
            \A k \in {"max_pages", "timeout"} :
                \A r2 \in AllRequests :
                    ( /\ ReachesBudget(adapter[c], r2)
                      /\ LargerIn(k, request[c], r2) )
                    => BudgetOf(adapter[c], r2) > budget[c]

\* The file holds a JSON array of page records.
PageRecords(text) == text.json /\ ValidPages(text.value)

\* C19: when the executable has written an array of page records and
\* exited 0, a crawl that succeeds returns exactly the records written, in
\* their order, no field added, dropped or altered: POST /crawl and the
\* stdio crawl_website tool return the array of the output file, the relay
\* crawl_website tool the array of an output file of the upstream API.
C19_RoundTrip ==
    [][\A c \in Calls :
          (endpoint[c] = "crawl" /\ status[c] = "Running"
             /\ status'[c] = "Succeeded") =>
              IF adapter[c] \in Spawning
              THEN (proc[c].st = "exited" /\ PageRecords(fs[path[c]].text))
                   => response'[c].data = fs[path[c]].text.value
              ELSE \E o \in ManyOutcomes :
                      /\ o.rc = 0 /\ PageRecords(o.text)
                      /\ response'[c].data = o.text.value
      ]_vars

\* The answer of spawning adapter a on operation e once process p has ended,
\* with the output file holding text.
AnswerOf(a, e, url, p, text, ioerr) ==
    IF a = "api" THEN ApiAnswer(e, url, WaitResult(p), p, text, ioerr)
    ELSE StdioAnswer(e, url, WaitResult(p), p, text, ioerr)

\* C20: the exit status is examined before the output file.  After a
\* non-zero exit the outcome is ExecutorError and the answer is the one
\* given over an empty, unreadable file, whatever the file holds; a success
\* or a MalformedOutput failure comes only after a zero exit.
C20_ExitStatusFirst ==
    [][\A c \in Calls :
          Ends(c) =>
              /\ proc[c].rc # 0 =>
                    /\ FailureOf(adapter[c], response'[c]).kind = "ExecutorError"
                    /\ response'[c] = AnswerOf(adapter[c], endpoint[c], request[c].url, proc[c],
                                                EmptyText, TRUE)
              /\ ( \/ status'[c] = "Succeeded"
                   \/ FailureOf(adapter[c], response'[c]).kind = "MalformedOutput" )
                   => proc[c].rc = 0
      ]_vars

\* C21: a call creates at most one output file, launches the executable at
\* most once and (relay) issues at most one POST; a spawning call that has
\* ended, by an executor error, a malformed output or a timeout included,
\* has created exactly one file and launched exactly once, and a relay call
\* that has ended has posted exactly once and spawned nothing.
C21_NoRetry ==
    \A c \in Calls :
        /\ effects[c].files <= 1 /\ effects[c].launches <= 1
        /\ effects[c].posts <= 1
        /\ (adapter[c] \in Spawning /\ status[c] \in Terminal) =>
              effects[c] = [files |-> 1, launches |-> 1, posts |-> 0]
        /\ (adapter[c] = "relay" /\ status[c] \in Terminal) =>
              effects[c] = [files |-> 0, launches |-> 0, posts |-> 1]

\* A call of the stdio server has failed by an executor error, and a call
\* of the relay has timed out, each after one launch or one POST.
C21_Witness ==
    /\ \E c \in Calls :
          /\ adapter[c] = "stdio" /\ status[c] = "Failed"
          /\ FailureOf("stdio", response[c]).kind = "ExecutorError"
          /\ effects[c].launches = 1 /\ effects[c].files = 1
    /\ \E c \in Calls :
          /\ adapter[c] = "relay" /\ status[c] = "TimedOut"
          /\ effects[c].posts = 1

\* C22: after a call has ended by cancellation while it waited on the
\* executable, no process it spawned is still running and it holds no
\* output file.
C22_CancelKillsProcess ==
    \A c \in Calls :
        status[c] = "Cancelled" =>
            /\ proc[c].st # "running"
            /\ path[c] = NoPath /\ FilesOf(c) = {}

\* Token t is among the tokens toks.
HasToken(toks, t) == \E i \in 1..Len(toks) : toks[i] = t

\* The option the executable takes for each flag of the request that is
\* emitted when the flag is true.
SwitchOf ==
    [extract_links |-> "-extract-links", seed_only |-> "-seed-only",
     news |-> "-news", verbose |-> "-verbose"]

\* Call c is a crawl of a spawning adapter whose tokens were compiled.
Compiled(c) ==
    /\ adapter[c] \in Spawning /\ endpoint[c] = "crawl"
    /\ Taken(c) /\ status[c] # "Rejected"

\* C23: in the compiled tokens of a crawl request -stay-domain=false is
\* present iff stay_domain is false; -extract-links, -seed-only, -news and
\* -verbose each iff its flag is true; -filter iff the filter is a
\* non-empty string, and then it is followed by the filter (POST /crawl and
\* the stdio crawl_website tool).
C23_OptionalTokens ==
    \A c \in Calls :
        Compiled(c) =>
            LET r == request[c]  toks == tokens[c] IN
            /\ HasToken(toks, "-stay-domain=false") <=> ~ApiField(r, "stay_domain")
            /\ \A k \in DOMAIN SwitchOf :
                   HasToken(toks, SwitchOf[k]) <=> ApiField(r, k)
            /\ HasToken(toks, "-filter") <=> ApiField(r, "filter") # ""
            /\ HasToken(toks, "-filter") =>
                   HasPair(toks, "-filter", ApiField(r, "filter"))

\* The stdio tool has compiled a crawl whose stay_domain is false.
C23_Witness ==
    \E c \in Calls :
        /\ Compiled(c) /\ adapter[c] = "stdio"
        /\ ~ApiField(request[c], "stay_domain")
        /\ HasToken(tokens[c], "-stay-domain=false")

\* Call c is a single-page operation whose invocation was compiled.
SinglePage(c) ==
    /\ adapter[c] \in Spawning /\ endpoint[c] \in {"scrape", "links"}
    /\ Taken(c) /\ status[c] # "Rejected"

\* The first record of the array a file holds.
FirstRecord(text) == text.value.items[1]

\* C24: every invocation for a single-page operation (POST /scrape, POST
\* /links, quick_scrape, get_page_links) passes -seed <url> -seed-only, a
\* link extraction passes -extract-links as well, and a response that
\* succeeds is built from the first record of the output file alone: the
\* one page of a scrape, the links of that page for a link extraction.
C24_SinglePage ==
    [][\A c \in Calls :
          /\ SinglePage(c) =>
                /\ Len(tokens[c]) >= 3
                /\ SubSeq(tokens[c], 1, 3) = <<"-seed", request[c].url, "-seed-only">>
                /\ endpoint[c] = "links" => HasToken(tokens[c], "-extract-links")
          /\ (SinglePage(c) /\ Ends(c) /\ status'[c] = "Succeeded") =>
                LET first == FirstRecord(fs[path[c]].text) IN
                IF endpoint[c] = "scrape"
                THEN /\ response'[c].data.n = 1
                     /\ response'[c].data.items =
                           <<IF adapter[c] = "api" THEN PageDataOut(first) ELSE first>>
                ELSE response'[c].data.items = LinksOf(first)
      ]_vars

\* quick_scrape has answered with the first of several records.
C24_Witness ==
    \E c \in Calls :
        /\ adapter[c] = "stdio" /\ endpoint[c] = "scrape"
        /\ status[c] = "Succeeded"
        /\ HasToken(tokens[c], "-seed-only")
        /\ response[c].data.items = <<FullPage>>

\* A page record carries no links: it has no "links" key, or the key holds
\* null or the empty list.
NoLinks(page) ==
    ~page.haslinks \/ "links" \in page.nulls \/ page.links = <<>>

\* The step by which a link extraction of call c ends after the executable
\* has exited 0 leaving a non-empty array.
LinksEnds(c) ==
    /\ Ends(c) /\ endpoint[c] = "links"
    /\ proc[c].rc = 0
    /\ fs[path[c]].text.json
    /\ IsList(fs[path[c]].text.value) /\ fs[path[c]].text.value.n > 0

\* C25: a link extraction (POST /links, get_page_links) that succeeds on a
\* non-empty array answers with the url of the request, the links of the
\* first record in their order and links_found equal to their number; when
\* the first record carries no links (and the file was read) the call
\* succeeds with links_found = 0 and an empty list.
C25_LinksResponse ==
    [][\A c \in Calls :
          LinksEnds(c) =>
              LET first == FirstRecord(fs[path[c]].text)
                  links == IF NoLinks(first) THEN <<>> ELSE first.links
              IN  /\ status'[c] = "Succeeded" =>
                        response'[c].data =
                            [t |-> "links", url |-> request[c].url,
                             n |-> Len(links), items |-> links]
                  /\ (NoLinks(first) /\ ~ReadFailed(response'[c])) =>
                        /\ status'[c] = "Succeeded"
                        /\ response'[c].data.n = 0
      ]_vars

\* C26: a tool call of the stdio server by an unknown name is rejected with
\* an error that names the tool; it creates no file and launches no
\* process, and a tool call waiting at the server can still be started.
C26_UnknownTool ==
    \A c \in Calls :
        endpoint[c] = "unknown" =>
            /\ status[c] = "Rejected"
            /\ response[c].raised
            /\ Len(response[c].text) = 2 /\ response[c].text[1] = "Unknown tool: "
            /\ effects[c] = NoEffects
            /\ path[c] = NoPath /\ FilesOf(c) = {} /\ proc[c].st = "none"
            /\ \A d \in Calls \ {c} :
                  (adapter[d] = "stdio" /\ status[d] = "Queued")
                  => ENABLED StdioBegin(d)

\* After a call by an unknown name a later tool call of the stdio server
\* has succeeded.
C26_Witness ==
    \E c, d \in Calls :
        /\ c < d
        /\ endpoint[c] = "unknown"
        /\ adapter[d] = "stdio" /\ status[d] = "Succeeded"

\* C27: the budget of a valid crawl call is timeout * max_pages + 30, lies
\* between 35 and 6030, and its timeout and max_pages are the values passed
\* to the executable as -timeout and -max; a single-page operation runs
\* with the budget 30 (POST /crawl, /scrape, /links and the stdio tools).
C27_BudgetFormula ==
    \A c \in Calls :
        /\ CompiledCrawl(c) =>
              LET t == ApiField(request[c], "timeout")
                  m == ApiField(request[c], "max_pages")
              IN  /\ budget[c] = t * m + 30
                  /\ 35 <= budget[c] /\ budget[c] <= 6030
                  /\ HasPair(tokens[c], "-timeout", ToString(t))
                  /\ HasPair(tokens[c], "-max", ToString(m))
        /\ SinglePage(c) => budget[c] = 30

\* Adapter a has let the url of call c through its own check.
UrlAccepted(c, a) ==
    /\ adapter[c] = a /\ Taken(c) /\ status[c] # "Rejected"
    /\ "url" \in request[c].given

\* C28: the adapters classify every url alike: a url a tool adapter has
\* accepted passes the validator of the API, and a url the API has
\* accepted (one with an http or https scheme and no host included) passes
\* the validator of the tool adapters.
C28_SameUrlClassification ==
    \A c \in Calls :
        /\ (UrlAccepted(c, "relay") \/ UrlAccepted(c, "stdio")) =>
              ApiValidateUrl(request[c].url)
        /\ UrlAccepted(c, "api") => ToolValidateUrl(request[c].url)
====
